---- MODULE Spec2Model ----
(***************************************************************************)
(* Model of rspack-circular-dependency-plugin.                             *)
(*                                                                         *)
(* Two builds of the plugin analyse a stats snapshot: the Record-based one *)
(* (src/src/index.ts) and the Map-based one (src/unnamed/part_000, second  *)
(* half).  The variable impl says which build is running.                  *)
(*                                                                         *)
(* Strings that the code transforms (module names, messages) are sequences *)
(* of characters, so that normalizePath and join are computed, not assumed.*)
(* Module ids are opaque strings.  An absent (undefined / null) property   *)
(* is a record field that is missing from the record's DOMAIN.             *)
(***************************************************************************)
EXTENDS Integers, Sequences, FiniteSets, TLC

VARIABLES
    impl,           \* "record" (index.ts) or "map" (Map-based snapshot build)
    options,        \* this.options
    statsModules,   \* compilation.getStats().toJson().modules
    modulesById,    \* the module index built by the handler
    pc,             \* position of the afterCompile handler
    todo,           \* keys of modulesById the for-loop has still to visit
    checkedModules, \* the Map-based build's checkedModules set
    seenModules,    \* the visited set object of the latest top-level search
    results,        \* per module: the latest maybeCyclicalPathsList
    visits,         \* per module: the isCyclic calls its latest search made
    errors,         \* compilation.errors
    warnings,       \* compilation.warnings
    calls           \* calls the handler made to its collaborators, in order

vars == <<impl, options, statsModules, modulesById, pc, todo, checkedModules,
          seenModules, results, visits, errors, warnings, calls>>

(***************************************************************************)
(* Bounds and input universes                                              *)
(***************************************************************************)

\* Largest number of reason records in a generated module graph.
MaxEdges == 3

\* Module ids of the snapshot, in the order stats.modules lists them.
ModuleOrder == <<"a", "b", "c">>

ModuleIds == {ModuleOrder[i] : i \in DOMAIN ModuleOrder}

\* Names the bundler gives the three modules.
DefaultName(id) ==
    CASE id = "a" -> <<".", "/", "a">>
      [] id = "b" -> <<"b">>
      [] OTHER    -> <<".", "/", "c">>

\* The reason records a module may carry, in the order the bundler lists
\* them: an entry reference without moduleId, then static and dynamic
\* imports by each module.
ReasonCandidates ==
    << [type |-> "entry"],
       [moduleId |-> "a", type |-> "esm import"],
       [moduleId |-> "a", type |-> "dynamic import"],
       [moduleId |-> "b", type |-> "esm import"],
       [moduleId |-> "b", type |-> "dynamic import"],
       [moduleId |-> "c", type |-> "esm import"],
       [moduleId |-> "c", type |-> "dynamic import"] >>

\* An edge: module dst carries the reason record ReasonCandidates[k].
\* The entry reference belongs to the entry module, the first of the list.
EntryEdge == [dst |-> ModuleOrder[1], k |-> 1]

EdgeUniverse == [dst : ModuleIds, k : DOMAIN ReasonCandidates \ {1}]

RECURSIVE EdgeSets(_)
EdgeSets(n) ==
    IF n = 0 THEN {{}}
    ELSE LET S == EdgeSets(n - 1)
         IN  S \cup {s \cup {e} : s \in S, e \in EdgeUniverse}

\* Every graph of the entry reference and at most MaxEdges import reasons.
Graphs == {g \cup {EntryEdge} : g \in EdgeSets(MaxEdges)}

\* module.reasons of module id in graph g.
ReasonsOf(g, id) ==
    LET ks == SelectSeq([i \in DOMAIN ReasonCandidates |-> i],
                        LAMBDA i : [dst |-> id, k |-> i] \in g)
    IN  [j \in DOMAIN ks |-> ReasonCandidates[ks[j]]]

\* One StatsModule: attr gives its optional name and its orphan flag.
StatsModule(g, id, attr) ==
    IF attr.named
    THEN [id |-> id, name |-> attr.name, orphan |-> attr.orphan,
          reasons |-> ReasonsOf(g, id)]
    ELSE [id |-> id, orphan |-> attr.orphan, reasons |-> ReasonsOf(g, id)]

\* stats.modules for graph g and per-module attributes.
StatsOf(g, attrs) ==
    [i \in DOMAIN ModuleOrder |->
        StatsModule(g, ModuleOrder[i], attrs[ModuleOrder[i]])]

PlainAttrs ==
    [id \in ModuleIds |-> [named |-> TRUE, name |-> DefaultName(id), orphan |-> FALSE]]

\* Every module name that occurs in a snapshot of the model.
NameUniverse == {DefaultName(id) : id \in ModuleIds} \cup {<<>>}

(***************************************************************************)
(* Pure helpers of the plugin                                              *)
(***************************************************************************)

\* A regular expression is modelled by the set of names it matches.
ExcludeNothing == {}

IncludeEverything == NameUniverse

Matches(name, regexp) == name \in regexp

\* Mutant of MatchesDynamicImport: the pattern lost its first alternative.
MatchesImportCallOnly(reason) ==
    "type" \in DOMAIN reason /\ reason.type = "import()"

\* reason.type?.match(/dynamic import|import\(\)/) over the bundler's types.
MatchesDynamicImport(reason) ==
    /\ "type" \in DOMAIN reason
    /\ reason.type \in {"dynamic import", "import()"}

\* Mutant of normalizePath: the prefix is not stripped.
normalizePathKeep(path) == path

\* path?.replace(/^\.\//, "") on a present path.
normalizePath(path) ==
    IF Len(path) >= 2 /\ path[1] = "." /\ path[2] = "/"
    THEN SubSeq(path, 3, Len(path))
    ELSE path

\* String(id) as a character sequence: the id is one opaque token.
StringOf(id) == <<id>>

\* normalizePath(module?.name) ?? id
DisplayName(index, id) ==
    IF id \in DOMAIN index /\ "name" \in DOMAIN index[id]
    THEN normalizePath(index[id].name)
    ELSE StringOf(id)

Undefined == [found |-> FALSE]

Found(paths) == [found |-> TRUE, paths |-> paths]

NotSearched == [found |-> FALSE, searched |-> FALSE]

\* Mutant of Retained: the exclude pattern is not applied.
RetainedIgnoringExclude(module, opts) ==
    /\ ~module.orphan
    /\ "name" \in DOMAIN module
    /\ module.name # <<>>
    /\ Matches(module.name, opts.include)

\* The filter of the index construction.
Retained(module, opts) ==
    /\ ~module.orphan
    /\ "name" \in DOMAIN module
    /\ module.name # <<>>
    /\ Matches(module.name, opts.include)
    /\ ~Matches(module.name, opts.exclude)

\* Ids of the retained modules, in stats.modules order.
RetainedKeys(modules, opts) ==
    LET kept == SelectSeq(modules, LAMBDA m : Retained(m, opts))
    IN  [i \in DOMAIN kept |-> kept[i].id]

\* Object.fromEntries(...) / the Map filled by the loop: id -> StatsModule.
BuildIndex(modules, opts) ==
    LET kept == SelectSeq(modules, LAMBDA m : Retained(m, opts))
    IN  [id \in {kept[i].id : i \in DOMAIN kept} |->
            (CHOOSE m \in {kept[i] : i \in DOMAIN kept} : m.id = id)]

(***************************************************************************)
(* The cycle detector                                                      *)
(***************************************************************************)

\* reason.moduleId is present and names a module of the index.
HasIndexedSource(index, reason) ==
    /\ "moduleId" \in DOMAIN reason
    /\ reason.moduleId \in DOMAIN index

\* Mutant of SkippedAsAsync: the allowAsyncCycles policy is never applied.
SkippedAsAsyncNever(reason) == FALSE

\* The allowAsyncCycles policy skips the reason.
SkippedAsAsync(reason) ==
    options.allowAsyncCycles /\ MatchesDynamicImport(reason)

\* Mutant of ClosesCycle: the test currentModule !== initialModule is lost.
ClosesCycleAtStart(reasonId, initialModule, currentModule) ==
    reasonId = initialModule

\* The reason closes a cycle back to the module the search started from.
ClosesCycle(reasonId, initialModule, currentModule) ==
    reasonId = initialModule /\ currentModule # initialModule

\* Mutant of ReasonsIn: only the first reason is examined.
ReasonsInFirstOnly(index, id) ==
    IF id \in DOMAIN index /\ "reasons" \in DOMAIN index[id]
          /\ index[id].reasons # <<>>
    THEN <<Head(index[id].reasons)>>
    ELSE <<>>

\* module.reasons ?? []
ReasonsIn(index, id) ==
    IF id \in DOMAIN index /\ "reasons" \in DOMAIN index[id]
    THEN index[id].reasons
    ELSE <<>>

\* Mutant of seenAfter: the recursive call works on a copy of seenModules,
\* so the marks it made are lost when it returns without a path.
seenAfterCopied(seen, sub) == seen

\* seenModules after a recursive call returned: the call received the very
\* object of its caller, so every mark it made is still there.
seenAfter(seen, sub) == sub.seen

\* What one isCyclic call hands back: the returned path (or Undefined), the
\* seenModules object as the call leaves it, the modules the call and the
\* calls below it entered (marked visited, reasons iterated), in order, and
\* the number of isCyclic calls made, this one included.
Returned(result, seen) ==
    [result |-> result, seen |-> seen, entered |-> <<>>, invocations |-> 0]

\* The calls of a recursive call sub, followed by those of the rest of the
\* loop.
After(sub, rest) ==
    [rest EXCEPT !.entered = sub.entered \o @,
                 !.invocations = sub.invocations + @]

\* A call that marked currentModule and then ran the loop.
Entering(currentModule, loop) ==
    [loop EXCEPT !.entered = <<currentModule>> \o @, !.invocations = @ + 1]

\* isCyclic of the Record-based build.
RECURSIVE isCyclic(_, _, _, _), isCyclicFrom(_, _, _, _, _)
isCyclic(initialModule, currentModule, index, seen) ==
    Entering(currentModule,
             isCyclicFrom(initialModule, currentModule, index,
                          seen \cup {currentModule}, 1))

\* The for-loop of isCyclic from the i-th reason on.
isCyclicFrom(initialModule, currentModule, index, seen, i) ==
    LET reasons == ReasonsIn(index, currentModule)
    IN
    IF i > Len(reasons) THEN Returned(Undefined, seen)
    ELSE
    LET reason == reasons[i]
    IN
    IF ~HasIndexedSource(index, reason)
    THEN isCyclicFrom(initialModule, currentModule, index, seen, i + 1)
    ELSE IF SkippedAsAsync(reason)
    THEN isCyclicFrom(initialModule, currentModule, index, seen, i + 1)
    ELSE IF reason.moduleId \in seen
    THEN IF ClosesCycle(reason.moduleId, initialModule, currentModule)
         THEN Returned(Found(<< DisplayName(index, reason.moduleId),
                                DisplayName(index, currentModule) >>),
                       seen)
         ELSE isCyclicFrom(initialModule, currentModule, index, seen, i + 1)
    ELSE
    LET sub == isCyclic(initialModule, reason.moduleId, index, seen)
    IN
    IF sub.result.found
    THEN After(sub, Returned(Found(Append(sub.result.paths,
                                          DisplayName(index, currentModule))),
                             seenAfter(seen, sub)))
    ELSE After(sub, isCyclicFrom(initialModule, currentModule, index,
                                 seenAfter(seen, sub), i + 1))

\* isCyclic of the Map-based build.
RECURSIVE isCyclicMap(_, _, _, _), isCyclicMapFrom(_, _, _, _, _)
isCyclicMap(initialModule, currentModule, index, seen) ==
    IF currentModule \in seen
    THEN [Returned(Undefined, seen) EXCEPT !.invocations = 1]
    ELSE Entering(currentModule,
                  isCyclicMapFrom(initialModule, currentModule, index,
                                  seen \cup {currentModule}, 1))

\* The for-loop of the Map-based isCyclic from the i-th reason on.
isCyclicMapFrom(initialModule, currentModule, index, seen, i) ==
    LET reasons == ReasonsIn(index, currentModule)
    IN
    IF i > Len(reasons) THEN Returned(Undefined, seen)
    ELSE
    LET reason == reasons[i]
    IN
    IF ~HasIndexedSource(index, reason)
    THEN isCyclicMapFrom(initialModule, currentModule, index, seen, i + 1)
    ELSE IF SkippedAsAsync(reason)
    THEN isCyclicMapFrom(initialModule, currentModule, index, seen, i + 1)
    ELSE IF ClosesCycle(reason.moduleId, initialModule, currentModule)
    THEN Returned(Found(<< DisplayName(index, reason.moduleId),
                           DisplayName(index, currentModule) >>),
                  seen)
    ELSE
    LET sub == isCyclicMap(initialModule, reason.moduleId, index, seen)
    IN
    IF sub.result.found
    THEN After(sub, Returned(Found(Append(sub.result.paths,
                                          DisplayName(index, currentModule))),
                             seenAfter(seen, sub)))
    ELSE After(sub, isCyclicMapFrom(initialModule, currentModule, index,
                                    seenAfter(seen, sub), i + 1))

\* Mutant of FreshSeenModules: the visited set of the previous search is
\* reused.
StaleSeenModules == seenModules

\* The seenModules argument of a top-level call: the default parameter {}
\* of the Record-based build, new Set() of the Map-based one.
FreshSeenModules == {}

\* this.isCyclic(module, module, index[, new Set()])
TopLevelSearchIn(index, module) ==
    IF impl = "record"
    THEN isCyclic(module, module, index, FreshSeenModules)
    ELSE isCyclicMap(module, module, index, FreshSeenModules)

TopLevelSearch(module) == TopLevelSearchIn(modulesById, module)

\* Before any search from a module: no call was made.
NoCalls == [entered |-> <<>>, invocations |-> 0]

\* The calls one top-level search made: the modules entered, in order, and
\* the number of isCyclic calls, the top-level one included.
CallsMade(search) ==
    [entered |-> search.entered, invocations |-> search.invocations]

(***************************************************************************)
(* Reporting                                                               *)
(***************************************************************************)

BASE_ERROR == <<"Circular dependency detected:\r\n">>

\* paths.join(" -> ")
RECURSIVE Join(_)
Join(paths) ==
    IF Len(paths) = 0 THEN <<>>
    ELSE IF Len(paths) = 1 THEN paths[1]
    ELSE paths[1] \o <<" ", "-", ">", " ">> \o Join(Tail(paths))

\* new Error(BASE_ERROR.concat(paths.join(" -> ")))
CycleError(paths) == [name |-> "Error", message |-> BASE_ERROR \o Join(paths)]

\* What a user's onDetected may do with a cycle: return, throw, or push an
\* error of its own to compilation.errors and return.
CallbackOutcomes == {"return", "throw", "push"}

\* The value a failing onDetected throws.
ThrownValue(paths) == [name |-> "CallbackFailure", paths |-> paths]

\* The error a pushing onDetected adds: new Error(paths.join(" -> ")).
UserError(paths) == [name |-> "Error", message |-> Join(paths)]

\* Mutant of routeMessage: failOnError is not consulted.
routeMessageToWarnings(paths, lists) ==
    [lists EXCEPT !.warnings = Append(@, CycleError(paths))]

\* The else branch: the message goes to errors or to warnings.
routeMessage(paths, lists) ==
    IF options.failOnError
    THEN [lists EXCEPT !.errors = Append(@, CycleError(paths))]
    ELSE [lists EXCEPT !.warnings = Append(@, CycleError(paths))]

\* Mutant of callOnDetected: no try/catch, the exception leaves the handler.
callOnDetectedUncaught(paths, outcome, lists) ==
    CASE outcome = "throw" -> [lists EXCEPT !.escaped = TRUE]
      [] outcome = "push"  -> [lists EXCEPT !.errors = Append(@, UserError(paths))]
      [] OTHER             -> lists

\* The onDetected branch: try { onDetected(...) } catch { errors.push(err) }.
\* lists.escaped says whether an exception leaves the handler.
callOnDetected(paths, outcome, lists) ==
    CASE outcome = "throw" -> [lists EXCEPT !.errors = Append(@, ThrownValue(paths))]
      [] outcome = "push"  -> [lists EXCEPT !.errors = Append(@, UserError(paths))]
      [] OTHER             -> lists

\* Mutant of reportCycle: the else is lost, the message is pushed as well.
reportCycleFallThrough(paths, outcome, lists) ==
    IF options.onDetected
    THEN routeMessage(paths, callOnDetected(paths, outcome, lists))
    ELSE routeMessage(paths, lists)

\* reportCycle / the body of if (maybeCyclicalPathsList): the lists after it.
reportCycle(paths, outcome, lists) ==
    IF options.onDetected
    THEN callOnDetected(paths, outcome, lists)
    ELSE routeMessage(paths, lists)

\* Mutant of markChecked: every module the search visited counts as checked.
markCheckedVisited(checked, module, search) == checked \cup search.seen

\* checkedModules.add(module) after a search that found a cycle.
markChecked(checked, module, search) == checked \cup {module}

(***************************************************************************)
(* SearchSpec: the detector called on the index of any small graph         *)
(***************************************************************************)

\* new RspackCircularDependencyPlugin(given): absent options get defaults.
Constructed(exclude, include, failOnError, allowAsyncCycles, hooks) ==
    [exclude          |-> exclude,
     include          |-> include,
     failOnError      |-> failOnError,
     allowAsyncCycles |-> allowAsyncCycles,
     onStart          |-> "onStart" \in hooks,
     onDetected       |-> "onDetected" \in hooks,
     onEnd            |-> "onEnd" \in hooks]

\* The index exists, no pass is running: any indexed module may be searched.
SearchInit ==
    /\ impl \in {"record", "map"}
    /\ \E async \in BOOLEAN, excl \in {ExcludeNothing, {DefaultName("c")}} :
          options = Constructed(excl, IncludeEverything, FALSE, async, {})
    /\ \E g \in Graphs : statsModules = StatsOf(g, PlainAttrs)
    /\ modulesById = BuildIndex(statsModules, options)
    /\ pc = "search"
    /\ todo = <<>>
    /\ checkedModules = {}
    /\ seenModules = {}
    /\ results = [id \in ModuleIds |-> NotSearched]
    /\ visits = [id \in ModuleIds |-> NoCalls]
    /\ errors = <<>>
    /\ warnings = <<>>
    /\ calls = <<>>

\* One top-level call this.isCyclic(module, module, modulesById).
Search(module) ==
    /\ pc = "search"
    /\ module \in DOMAIN modulesById
    /\ \E r \in {TopLevelSearch(module)} :
           /\ seenModules' = r.seen
           /\ results' = [results EXCEPT ![module] = r.result]
           /\ visits' = [visits EXCEPT ![module] = CallsMade(r)]
    /\ UNCHANGED <<impl, options, statsModules, modulesById, pc, todo,
                   checkedModules, errors, warnings, calls>>

SearchNext == \E module \in ModuleIds : Search(module)

SearchSpec == SearchInit /\ [][SearchNext]_vars

(***************************************************************************)
(* Spec: one analysis pass of the afterCompile handler                     *)
(***************************************************************************)

Edge(dst, src, kind) ==
    [dst |-> dst,
     k   |-> CHOOSE i \in DOMAIN ReasonCandidates :
                 /\ "moduleId" \in DOMAIN ReasonCandidates[i]
                 /\ ReasonCandidates[i].moduleId = src
                 /\ ReasonCandidates[i].type = kind]

\* "src imports dst" for every pair of distinct modules.
StaticEdges ==
    {Edge(p[1], p[2], "esm import") :
        p \in {q \in ModuleIds \X ModuleIds : q[1] # q[2]}}

\* Graphs a pass analyses: every graph of static imports between distinct
\* modules, a three-cycle closed by a dynamic import, a two-cycle next to a
\* self-import, and an entry module.
PassGraphs ==
    (SUBSET StaticEdges)
    \cup { {Edge("b", "a", "esm import"), Edge("c", "b", "esm import"),
            Edge("a", "c", "dynamic import")},
           {Edge("a", "a", "esm import"), Edge("b", "a", "esm import"),
            Edge("c", "c", "esm import")},
           {EntryEdge, Edge("b", "a", "esm import"),
            Edge("a", "b", "dynamic import")} }

\* Snapshots whose modules are filtered for different reasons.
FilterCases ==
    LET plain == PlainAttrs
    IN  { [attrs |-> plain, exclude |-> ExcludeNothing, include |-> IncludeEverything],
          [attrs |-> plain, exclude |-> {DefaultName("c")}, include |-> IncludeEverything],
          [attrs |-> plain, exclude |-> ExcludeNothing,
           include |-> {DefaultName("a"), DefaultName("b")}],
          [attrs |-> [plain EXCEPT !["b"].orphan = TRUE],
           exclude |-> ExcludeNothing, include |-> IncludeEverything],
          [attrs |-> [plain EXCEPT !["a"].named = FALSE],
           exclude |-> ExcludeNothing, include |-> IncludeEverything],
          [attrs |-> [plain EXCEPT !["c"].name = <<>>],
           exclude |-> ExcludeNothing, include |-> IncludeEverything] }

HookChoices ==
    { {}, {"onDetected"}, {"onStart", "onEnd"}, {"onStart", "onDetected", "onEnd"} }

Init ==
    /\ impl \in {"record", "map"}
    /\ \E f \in FilterCases :
          /\ \E fail \in BOOLEAN, async \in BOOLEAN, hooks \in HookChoices :
                options = Constructed(f.exclude, f.include, fail, async, hooks)
          /\ \E g \in PassGraphs : statsModules = StatsOf(g, f.attrs)
    /\ modulesById = <<>>
    /\ pc = "start"
    /\ todo = <<>>
    /\ checkedModules = {}
    /\ seenModules = {}
    /\ results = [id \in ModuleIds |-> NotSearched]
    /\ visits = [id \in ModuleIds |-> NoCalls]
    /\ errors = <<>>
    /\ warnings = <<>>
    /\ calls = <<>>

\* this.options.onStart?.({ compilation })
OnStart ==
    /\ pc = "start"
    /\ calls' = IF options.onStart THEN Append(calls, [fn |-> "onStart"]) ELSE calls
    /\ pc' = "stats"
    /\ UNCHANGED <<impl, options, statsModules, modulesById, todo,
                   checkedModules, seenModules, results, visits, errors,
                   warnings>>

\* compilation.getStats().toJson(), the index, and the start of the loop.
IndexModules ==
    /\ pc = "stats"
    /\ calls' = Append(calls, [fn |-> "getStats"])
    /\ modulesById' = BuildIndex(statsModules, options)
    /\ todo' = RetainedKeys(statsModules, options)
    /\ checkedModules' = {}
    /\ pc' = "loop"
    /\ UNCHANGED <<impl, options, statsModules, seenModules, results,
                   visits, errors, warnings>>

\* One iteration of the loop over the index: search, then report.
Analyse ==
    /\ pc = "loop"
    /\ todo # <<>>
    /\ \E module \in {Head(todo)} : \E search \in {TopLevelSearch(module)} :
       LET skip  == impl = "map" /\ module \in checkedModules
           found == ~skip /\ search.result.found
       IN  /\ todo' = Tail(todo)
           /\ IF skip
              THEN UNCHANGED <<seenModules, results, visits, checkedModules,
                               errors, warnings, calls, pc>>
              ELSE
              /\ seenModules' = search.seen
              /\ results' = [results EXCEPT ![module] = search.result]
              /\ visits' = [visits EXCEPT ![module] = CallsMade(search)]
              /\ checkedModules' =
                     IF impl = "map" /\ found
                     THEN markChecked(checkedModules, module, search)
                     ELSE checkedModules
              /\ \E outcome \in (IF found /\ options.onDetected
                                  THEN CallbackOutcomes ELSE {"return"}) :
                   LET searched == Append(calls, [fn |-> "isCyclic", module |-> module])
                       before   == [errors |-> errors, warnings |-> warnings,
                                    escaped |-> FALSE]
                       lists    == IF found
                                   THEN reportCycle(search.result.paths, outcome, before)
                                   ELSE before
                   IN  /\ errors' = lists.errors
                       /\ warnings' = lists.warnings
                       /\ pc' = IF lists.escaped THEN "failed" ELSE pc
                       /\ calls' =
                             IF found /\ options.onDetected
                             THEN Append(searched,
                                         [fn      |-> "onDetected",
                                          module  |-> module,
                                          paths   |-> search.result.paths,
                                          outcome |-> outcome])
                             ELSE searched
    /\ UNCHANGED <<impl, options, statsModules, modulesById>>

\* this.options.onEnd?.({ compilation })
OnEnd ==
    /\ pc = "loop"
    /\ todo = <<>>
    /\ calls' = IF options.onEnd THEN Append(calls, [fn |-> "onEnd"]) ELSE calls
    /\ pc' = "done"
    /\ UNCHANGED <<impl, options, statsModules, modulesById, todo,
                   checkedModules, seenModules, results, visits, errors,
                   warnings>>

Next == OnStart \/ IndexModules \/ Analyse \/ OnEnd

Spec == Init /\ [][Next]_vars

(***************************************************************************)
(* Graph notions the claims are stated in.  They are defined on the index  *)
(* alone, without the detector and without the helpers it uses.            *)
(***************************************************************************)

IndexedIds == DOMAIN modulesById

Searched(module) == results[module] # NotSearched

DynamicKinds == {"dynamic import", "import()"}

\* <<u, v>>: u imports v, by a reason record of v whose source u is indexed
\* and, when skipAsync, whose type is not a dynamic import.
ImportEdges(index, skipAsync) ==
    {e \in (DOMAIN index) \X (DOMAIN index) :
        \E i \in DOMAIN index[e[2]].reasons :
            LET r == index[e[2]].reasons[i]
            IN  /\ "moduleId" \in DOMAIN r
                /\ r.moduleId = e[1]
                /\ skipAsync => ~("type" \in DOMAIN r /\ r.type \in DynamicKinds)}

\* The edges the search may follow under the configured policy.
EligibleEdges == ImportEdges(modulesById, options.allowAsyncCycles)

RECURSIVE Connected(_, _)
Connected(E, n) ==
    IF n = 0 THEN E
    ELSE LET R == Connected(E, n - 1)
         IN  R \cup {<<x[1][1], x[2][2]>> :
                        x \in {y \in R \X E : y[1][2] = y[2][1]}}

\* <<u, v>>: a chain of one or more edges of E leads from u to v.
TransitiveClosure(E) == Connected(E, Cardinality(ModuleIds) - 1)

\* m lies on a directed cycle of E through at least one other module.
OnCycle(E, m) ==
    LET T == TransitiveClosure(E)
    IN  \E v \in ModuleIds \ {m} : <<m, v>> \in T /\ <<v, m>> \in T

\* The modules that lie on such a cycle.
CyclicModules(E) ==
    LET T == TransitiveClosure(E)
    IN  {m \in ModuleIds : \E v \in ModuleIds \ {m} : <<m, v>> \in T /\ <<v, m>> \in T}

\* The name a path shows for each module of the snapshot.
ShownName(id) ==
    CASE id = "a" -> <<"a">>
      [] id = "b" -> <<"b">>
      [] OTHER    -> <<"c">>

Count(x, seq) == Cardinality({i \in DOMAIN seq : seq[i] = x})

\* ms[1] imports ms[2] imports ... imports ms[1].
CycleEdges(ms) == {<<ms[i], ms[(i % Len(ms)) + 1]>> : i \in DOMAIN ms}

\* The eligible edges E are exactly a simple cycle through the modules ms.
IsSimpleCycle(E, ms) ==
    /\ \A i, j \in DOMAIN ms : ms[i] = ms[j] => i = j
    /\ E = CycleEdges(ms)

SimpleCycles ==
    LET E == EligibleEdges
    IN  IF Cardinality(E) \notin {2, 3} THEN {}
        ELSE {ms \in [1..Cardinality(E) -> IndexedIds] : IsSimpleCycle(E, ms)}

\* The index with every reason "module imports itself" removed.
WithoutSelfEdges(index) ==
    [id \in DOMAIN index |->
        [index[id] EXCEPT !.reasons =
            SelectSeq(@, LAMBDA r : ~("moduleId" \in DOMAIN r /\ r.moduleId = id))]]

\* The index with every reason's import kind replaced by a static import.
AllStatic(index) ==
    [id \in DOMAIN index |->
        [index[id] EXCEPT !.reasons =
            [i \in DOMAIN @ |-> [@[i] EXCEPT !.type = "esm import"]]]]

(***************************************************************************)
(* Claims about the detector, checked under SearchSpec                     *)
(***************************************************************************)

\* C1: a top-level search from an indexed module m returns a path if and
\* only if m lies on a directed cycle of at least two distinct indexed
\* modules formed by eligible reason edges; on an acyclic graph it returns
\* absent for every module.
C1_PathIffOnCycle ==
    LET cyclic == CyclicModules(EligibleEdges)
    IN  \A m \in IndexedIds :
            Searched(m) => (results[m].found <=> m \in cyclic)

\* C1 witness: on one index a search found a cycle and another search, from
\* a module that is on no cycle, returned absent.
C1_Witness ==
    \E m, n \in IndexedIds :
        /\ Searched(m) /\ results[m].found
        /\ Searched(n) /\ ~results[n].found /\ ~OnCycle(EligibleEdges, n)

\* C2 as stated: on a simple cycle of k = 2 or 3 modules the search from any
\* member returns a path of exactly k elements that contains the display
\* name of each member exactly once.
C2_PathOfKElements ==
    \A ms \in SimpleCycles : \A i \in DOMAIN ms :
        Searched(ms[i]) =>
            /\ results[ms[i]].found
            /\ Len(results[ms[i]].paths) = Len(ms)
            /\ \A j \in DOMAIN ms : Count(ShownName(ms[j]), results[ms[i]].paths) = 1

\* C2 amended: on a simple cycle of k = 2 or 3 modules the search from any
\* member returns a path of exactly k + 1 elements whose first and last
\* elements are the display name of the start module, which occurs exactly
\* twice, and which contains the display name of every other member exactly
\* once.
C2_PathOfKPlusOneElements ==
    \A ms \in SimpleCycles : \A i \in DOMAIN ms :
        Searched(ms[i]) =>
            LET paths == results[ms[i]].paths
            IN  /\ results[ms[i]].found
                /\ Len(paths) = Len(ms) + 1
                /\ paths[1] = ShownName(ms[i])
                /\ paths[Len(paths)] = ShownName(ms[i])
                /\ \A j \in DOMAIN ms :
                      Count(ShownName(ms[j]), paths) = IF j = i THEN 2 ELSE 1

\* C2 witness: the index is a three-cycle and the search from a member whose
\* name carries the "./" prefix has returned its path.
C2_Witness ==
    \E ms \in SimpleCycles :
        /\ Len(ms) = 3
        /\ Searched("a")
        /\ results["a"].found

\* C3: with allowAsyncCycles = true a module is reported only if it lies on
\* a cycle made entirely of reasons that are not dynamic imports; with
\* allowAsyncCycles = false the import kind has no effect: a module is
\* reported iff it lies on a cycle of reasons of any kind, and the result is
\* the one the search gives when every reason is a static import.
C3_AsyncPolicy ==
    LET static  == CyclicModules(ImportEdges(modulesById, TRUE))
        anyKind == CyclicModules(ImportEdges(modulesById, FALSE))
        retyped == AllStatic(modulesById)
    IN  \A m \in IndexedIds :
            Searched(m) =>
                /\ options.allowAsyncCycles => (results[m].found => m \in static)
                /\ ~options.allowAsyncCycles =>
                      /\ results[m].found <=> m \in anyKind
                      /\ retyped # modulesById =>
                            results[m] = TopLevelSearchIn(retyped, m).result

\* C3 witness: allowAsyncCycles is set, a module lies on a cycle that only a
\* dynamic import closes, and the search from it returned absent.
C3_Witness ==
    \E m \in IndexedIds :
        /\ options.allowAsyncCycles
        /\ OnCycle(ImportEdges(modulesById, FALSE), m)
        /\ ~OnCycle(ImportEdges(modulesById, TRUE), m)
        /\ Searched(m)
        /\ ~results[m].found

\* C5: self-referential reasons are ignored: the result of every search
\* equals the result on the same index with all self-edges removed, and a
\* module whose only cycle is its own self-edge is not reported.
C5_SelfEdgesIgnored ==
    LET pruned == WithoutSelfEdges(modulesById)
        cyclic == CyclicModules(ImportEdges(pruned, options.allowAsyncCycles))
    IN  pruned # modulesById =>
            \A m \in IndexedIds :
                Searched(m) =>
                    /\ results[m] = TopLevelSearchIn(pruned, m).result
                    /\ m \notin cyclic => ~results[m].found

\* C5 witness: a module with an eligible self-edge and no other cycle has
\* been searched.
C5_Witness ==
    \E m \in IndexedIds :
        /\ <<m, m>> \in EligibleEdges
        /\ ~OnCycle(EligibleEdges, m)
        /\ Searched(m)

EligibleReasons ==
    UNION { { <<v, i>> : i \in
                { j \in DOMAIN modulesById[v].reasons :
                    LET r == modulesById[v].reasons[j]
                    IN  /\ "moduleId" \in DOMAIN r
                        /\ r.moduleId \in IndexedIds
                        /\ options.allowAsyncCycles =>
                             ~("type" \in DOMAIN r /\ r.type \in DynamicKinds) } }
            : v \in IndexedIds }

NoRepeats(seq) == \A i, j \in DOMAIN seq : i # j => seq[i] # seq[j]

NothingSearched == \A m \in ModuleIds : ~Searched(m)

\* C11: a top-level search from every indexed module comes back, whatever
\* the graph; in one top-level search no module is entered (marked visited,
\* reasons iterated) twice, only indexed modules are entered, the start
\* first, and the number of recursive isCyclic calls is at most the number
\* of indexed modules plus the number of eligible reason edges.
C11_SearchTerminates ==
    /\ NothingSearched =>
          \A m \in IndexedIds : TopLevelSearch(m).invocations >= 1
    /\ \A m \in ModuleIds : Searched(m) =>
          LET entered   == visits[m].entered
              recursive == visits[m].invocations - 1
          IN  /\ entered # <<>>
              /\ Head(entered) = m
              /\ NoRepeats(entered)
              /\ \A i \in DOMAIN entered : entered[i] \in IndexedIds
              /\ recursive >= Len(entered) - 1
              /\ recursive <= Cardinality(IndexedIds) + Cardinality(EligibleReasons)

\* The Map-based build searched from a module off every cycle, walked into
\* a cycle that does not pass through it, and a call reached a module that
\* had already been entered.
C11_Witness ==
    /\ impl = "map"
    /\ \E m \in ModuleIds :
          /\ Searched(m)
          /\ ~results[m].found
          /\ ~OnCycle(EligibleEdges, m)
          /\ visits[m].invocations > Len(visits[m].entered)
          /\ \E i \in DOMAIN visits[m].entered :
                /\ visits[m].entered[i] # m
                /\ OnCycle(EligibleEdges, visits[m].entered[i])

\* The indexed module a path element denotes.
Denoted(name) == CHOOSE id \in IndexedIds : ShownName(id) = name

\* C12: a path returned by a top-level search is a closed witness cycle: it
\* has at least 3 elements, every element denotes an indexed module, the
\* first and the last denote the start module, the elements before the last
\* are pairwise distinct, and every element imports its successor through
\* an eligible reason record of that successor.
C12_PathIsWitnessCycle ==
    LET E == EligibleEdges
    IN  \A m \in ModuleIds : (Searched(m) /\ results[m].found) =>
           LET paths == results[m].paths
               n     == Len(paths)
           IN  /\ n >= 3
               /\ \A i \in 1..n : \E id \in IndexedIds : ShownName(id) = paths[i]
               /\ paths[1] = ShownName(m)
               /\ paths[n] = ShownName(m)
               /\ NoRepeats(SubSeq(paths, 1, n - 1))
               /\ \A i \in 1..(n - 1) :
                     <<Denoted(paths[i]), Denoted(paths[i + 1])>> \in E

\* With allowAsyncCycles on, a search returned a path although some module
\* is imported by another one through dynamic imports only.
C12_Witness ==
    /\ options.allowAsyncCycles
    /\ ImportEdges(modulesById, FALSE) # EligibleEdges
    /\ \E m \in ModuleIds :
          /\ Searched(m)
          /\ results[m].found
          /\ Len(results[m].paths) = 3

(***************************************************************************)
(* Claims about one analysis pass, checked under Spec                      *)
(***************************************************************************)

\* The snapshot's record of module id.
ModuleOf(id) == CHOOSE m \in {statsModules[i] : i \in DOMAIN statsModules} : m.id = id

\* The module stays outside the index: it is orphaned, has no display name,
\* does not match include, or matches exclude.
OutsideIndex(id) ==
    LET m == ModuleOf(id)
    IN  \/ m.orphan
        \/ "name" \notin DOMAIN m
        \/ m.name = <<>>
        \/ m.name \notin options.include
        \/ m.name \in options.exclude

\* The snapshot restricted to the modules that are not outside the index.
InsideModules ==
    [id \in {m \in ModuleIds : ~OutsideIndex(m)} |-> ModuleOf(id)]

\* The snapshot with no module filtered.
AllModules == [id \in ModuleIds |-> ModuleOf(id)]

CallsOf(fn) == SelectSeq(calls, LAMBDA c : c.fn = fn)

SearchCount(m) == Len(SelectSeq(calls, LAMBDA c : c.fn = "isCyclic" /\ c.module = m))

\* "Circular dependency detected:\r\n" + paths.join(" -> ")
RECURSIVE Arrowed(_)
Arrowed(paths) ==
    IF Len(paths) <= 1 THEN (IF Len(paths) = 0 THEN <<>> ELSE Head(paths))
    ELSE Head(paths) \o <<" ", "-", ">", " ">> \o Arrowed(Tail(paths))

ExpectedMessage(paths) ==
    [name    |-> "Error",
     message |-> <<"Circular dependency detected:\r\n">> \o Arrowed(paths)]

\* Reports the pass has made for module m: onDetected calls when a callback
\* is configured, pushed messages otherwise.
ReportCount(m) ==
    IF options.onDetected
    THEN Len(SelectSeq(calls, LAMBDA c : c.fn = "onDetected" /\ c.module = m))
    ELSE IF results[m].found
    THEN Len(SelectSeq(errors \o warnings,
                       LAMBDA e : e = ExpectedMessage(results[m].paths)))
    ELSE 0

\* Entries of the two lists that are "Circular dependency detected" messages.
PushedMessages ==
    SelectSeq(errors \o warnings,
              LAMBDA e : /\ "message" \in DOMAIN e
                         /\ e.message # <<>>
                         /\ Head(e.message) = "Circular dependency detected:\r\n")

Range(seq) == {seq[i] : i \in DOMAIN seq}

\* C4: no search is started from, and no returned path contains, a module
\* that is outside the index; when the modules left inside the index form
\* no cycle, the finished pass has reported nothing.
C4_FilteredModulesStayOut ==
    /\ \A id \in ModuleIds :
          OutsideIndex(id) =>
              /\ ~Searched(id)
              /\ SearchCount(id) = 0
              /\ \A m \in ModuleIds :
                    results[m].found =>
                        /\ ShownName(id) \notin Range(results[m].paths)
                        /\ <<id>> \notin Range(results[m].paths)
    /\ (pc = "done"
         /\ CyclicModules(ImportEdges(InsideModules, options.allowAsyncCycles)) = {}) =>
            /\ PushedMessages = <<>>
            /\ CallsOf("onDetected") = <<>>
            /\ \A m \in ModuleIds : ~results[m].found

\* C4 witness: the snapshot is the cycle a -> b -> c -> a, c is excluded by
\* the pattern, a and b have been searched and the finished pass reported
\* nothing.
C4_Witness ==
    /\ pc = "done"
    /\ CyclicModules(ImportEdges(AllModules, FALSE)) = ModuleIds
    /\ ModuleOf("c").name \in options.exclude
    /\ Searched("a") /\ Searched("b")
    /\ errors = <<>> /\ warnings = <<>>
    /\ CallsOf("onDetected") = <<>>

\* C6: the pass runs the detector once for every indexed module (never twice,
\* never for another module, and in the Map-based build never skipped because
\* of checkedModules) and makes exactly one report for each indexed module
\* that lies on an eligible cycle and none for any other module, so a cycle
\* of k modules yields k reports.
C6_OneSearchOneReport ==
    LET cyclic  == CyclicModules(EligibleEdges)
        pending == IF pc \in {"start", "stats"} THEN ModuleIds ELSE Range(todo)
    IN  \A m \in ModuleIds :
            /\ SearchCount(m) = IF ~OutsideIndex(m) /\ m \notin pending THEN 1 ELSE 0
            /\ ReportCount(m) = IF SearchCount(m) = 1 /\ m \in cyclic THEN 1 ELSE 0
            /\ pc = "done" => Len(PushedMessages) + Len(CallsOf("onDetected"))
                                  = Cardinality(cyclic)

\* C6 witness: the Map-based build finished a pass over a three-cycle and
\* pushed three messages.
C6_Witness ==
    /\ pc = "done"
    /\ impl = "map"
    /\ Cardinality(CyclicModules(EligibleEdges)) = 3
    /\ Len(PushedMessages) = 3

\* The calls a step added to the log.
NewCalls == SubSeq(calls', Len(calls) + 1, Len(calls'))

\* C7: when the configured callback throws for a detected cycle, the step
\* appends exactly the thrown value to the error list and nothing to the
\* warning list, so no "Circular dependency detected" message is pushed; when
\* the callback returns, the lists hold nothing but what the callback itself
\* pushed.
C7_ThrowingCallback ==
    [][\A i \in DOMAIN NewCalls :
          NewCalls[i].fn = "onDetected" =>
              /\ warnings' = warnings
              /\ NewCalls[i].outcome = "throw" =>
                    errors' = Append(errors, [name  |-> "CallbackFailure",
                                              paths |-> NewCalls[i].paths])
              /\ NewCalls[i].outcome = "return" => errors' = errors
              /\ NewCalls[i].outcome = "push" =>
                    errors' = Append(errors, [name    |-> "Error",
                                              message |-> Arrowed(NewCalls[i].paths)])]_vars

\* C7 witness: a callback has thrown and the error list holds one entry, the
\* thrown value.
C7_Witness ==
    /\ Len(CallsOf("onDetected")) = 1
    /\ CallsOf("onDetected")[1].outcome = "throw"
    /\ Len(errors) = 1
    /\ errors[1].name = "CallbackFailure"
    /\ warnings = <<>>

\* C8: with no callback configured, a step that detects a cycle appends
\* exactly one message to the error list if failOnError is set and to the
\* warning list otherwise, and leaves the other list unchanged; every other
\* step leaves both lists unchanged.
C8_MessageRouting ==
    [][~options.onDetected =>
          LET searches == SelectSeq(NewCalls, LAMBDA c : c.fn = "isCyclic")
              detected == searches # <<>> /\ results'[searches[1].module].found
              message  == ExpectedMessage(results'[searches[1].module].paths)
          IN  IF detected
              THEN IF options.failOnError
                   THEN errors' = Append(errors, message) /\ warnings' = warnings
                   ELSE warnings' = Append(warnings, message) /\ errors' = errors
              ELSE errors' = errors /\ warnings' = warnings]_vars

\* C8 witness: without a callback and with failOnError, a finished pass left
\* two messages in the error list and none in the warning list.
C8_Witness ==
    /\ pc = "done"
    /\ ~options.onDetected
    /\ options.failOnError
    /\ Len(errors) = 2
    /\ warnings = <<>>

\* Modules of the snapshot that are inside the index, already analysed and on
\* an eligible cycle, in the order the snapshot lists them.
ExpectedDetections ==
    LET cyclic == CyclicModules(ImportEdges(InsideModules, options.allowAsyncCycles))
    IN  SelectSeq(ModuleOrder,
                  LAMBDA m : /\ ~OutsideIndex(m)
                             /\ m \in cyclic
                             /\ pc \notin {"start", "stats"}
                             /\ m \notin Range(todo))

\* C9: the lifecycle callbacks run in order.  A configured onStart is called
\* exactly once, before the stats are read and before every other call; a
\* configured onDetected is called once per cyclic module in the order of the
\* index; a configured onEnd is called exactly once, as the last call of the
\* pass.  A throwing onDetected does not stop the pass: no exception leaves
\* the handler, after a throw the handler takes its next step, and when it is
\* done every indexed module has been analysed.
C9_LifecycleOrder ==
    /\ options.onStart =>
          /\ pc = "start" => calls = <<>>
          /\ pc # "start" => calls # <<>> /\ calls[1].fn = "onStart"
          /\ Len(CallsOf("onStart")) <= 1
    /\ ~options.onStart => CallsOf("onStart") = <<>>
    /\ \A i, j \in DOMAIN calls :
          (calls[i].fn = "getStats" /\ calls[j].fn \in {"isCyclic", "onDetected", "onEnd"})
              => i < j
    /\ options.onDetected =>
          [i \in DOMAIN CallsOf("onDetected") |-> CallsOf("onDetected")[i].module]
              = ExpectedDetections
    /\ ~options.onDetected => CallsOf("onDetected") = <<>>
    /\ options.onEnd =>
          /\ pc = "done" <=> (calls # <<>> /\ calls[Len(calls)].fn = "onEnd")
          /\ Len(CallsOf("onEnd")) <= 1
    /\ ~options.onEnd => CallsOf("onEnd") = <<>>
    /\ pc # "failed"
    /\ (pc # "done" /\ calls # <<>> /\ calls[Len(calls)].fn = "onDetected"
           /\ calls[Len(calls)].outcome = "throw") => ENABLED Next
    /\ pc = "done" => \A m \in ModuleIds : ~OutsideIndex(m) => SearchCount(m) = 1

\* C9 witness: all three callbacks are configured, the first onDetected call
\* threw, a later one was still made, and onEnd closed the pass.
C9_Witness ==
    /\ pc = "done"
    /\ options.onStart /\ options.onDetected /\ options.onEnd
    /\ Len(CallsOf("onDetected")) >= 2
    /\ CallsOf("onDetected")[1].outcome = "throw"
    /\ calls[1].fn = "onStart"
    /\ calls[Len(calls)].fn = "onEnd"

====
